---- MODULE Spec2Model ----
(***************************************************************************)
(* League ranking / scoring engine of jogr-backend (src/app.py).           *)
(*                                                                         *)
(* Two specifications share this module:                                   *)
(*   SpecScore - the pure scoring function calculate_points applied to a   *)
(*               bucket drawn from a bounded set of activity records;      *)
(*   Spec      - the document store together with the handlers             *)
(*               save_activity and compute_league_ranking.                 *)
(*                                                                         *)
(* Numbers.  Python computes on floats.  The model computes on exact       *)
(* fractions n/d of integers.  Distances are held in units of 1/DistScale  *)
(* km, durations in minutes, elevations in metres, so every input and      *)
(* every sum of inputs is exactly representable as a float, and            *)
(* round(x/50), round(x/10), round(x) are Python's round-half-to-even of   *)
(* the exact quotient.  The pace term goes through three float divisions   *)
(* and multiplications; its error matters only when the exact value lies   *)
(* on a half, where the float may fall on either side: there the model     *)
(* allows both neighbours (RoundFloat).  Running the Python function on    *)
(* every bucket of ScoreSamples gives a value the model allows, and both   *)
(* neighbours do occur (8 km in 39 min: 20; 24 km in 117 min: 21).         *)
(*                                                                         *)
(* Store.  Exceptions of the Firestore client are an input of each         *)
(* handler: which of its reads or writes raises, if any.  Documents are    *)
(* streamed in the order of their names.  The users collection is fixed:   *)
(* the OAuth callback that adds users is not part of the ranking engine.   *)
(***************************************************************************)
EXTENDS Integers, Sequences, FiniteSets, TLC

VARIABLES
    db,          \* the module global db: TRUE a Firestore client, FALSE None
    activities,  \* db.collection("activities"): document id -> document
    leagues,     \* db.collection("leagues")/<league>/activities: league -> document id -> document
    users,       \* db.collection("users"): userID -> document
    resp,        \* the last request handled and the response it returned
    savesOk,     \* TRUE while no save_activity has returned an error
    bucket,      \* calculate_points' argument user_activities (SpecScore)
    outcome,     \* what calculate_points did with bucket (SpecScore)
    scored       \* whether calculate_points has run (SpecScore)

vars == <<db, activities, leagues, users, resp, savesOk, bucket, outcome, scored>>

storeVars == <<db, activities, leagues, users, resp, savesOk>>
scoreVars == <<bucket, outcome, scored>>

----------------------------------------------------------------------------
(* Bounds and units *)

\* distance values are counted in 1/DistScale km (halves: exact as floats)
DistScale == 2

\* longest bucket handed to calculate_points in SpecScore
MaxBucket == 3

Min(a, b) == IF a <= b THEN a ELSE b
Max(a, b) == IF a >= b THEN a ELSE b

----------------------------------------------------------------------------
(* Python arithmetic *)

\* round(n/d) for n >= 0, d > 0 exact: Python 3 rounds half to even
RoundHalfEven(n, d) ==
    LET q == n \div d
        r == n % d
    IN  IF 2 * r < d THEN q
        ELSE IF 2 * r > d THEN q + 1
        ELSE IF q % 2 = 0 THEN q ELSE q + 1

\* round of a float that carries rounding error, exact value n/d (n >= 0,
\* d > 0): the nearest integer, and either neighbour when n/d is on a half
RoundFloat(n, d) ==
    LET q == n \div d
        r == n % d
    IN  IF 2 * r < d THEN {q}
        ELSE IF 2 * r > d THEN {q + 1}
        ELSE {q, q + 1}

\* sum(a[f] for a in acts)
RECURSIVE SumField(_, _)
SumField(acts, f) ==
    IF acts = <<>> THEN 0
    ELSE Head(acts)[f] + SumField(Tail(acts), f)

\* max((a[f] for a in acts), default=0)
RECURSIVE MaxField(_, _)
MaxField(acts, f) ==
    IF acts = <<>> THEN 0
    ELSE Max(Head(acts)[f], MaxField(Tail(acts), f))

\* a read a[f] raises KeyError when the dict has no key f
NumericFields == {"distance", "duration", "elevation"}
RaisesKeyError(acts) ==
    \E i \in 1..Len(acts) : \E f \in NumericFields : f \notin DOMAIN acts[i]

----------------------------------------------------------------------------
(* calculate_points, src/app.py 189-207 *)

total_distance(acts) == SumField(acts, "distance")     \* in 1/DistScale km
total_duration(acts) == SumField(acts, "duration")     \* minutes
total_elevation(acts) == SumField(acts, "elevation")   \* metres
num_runs(acts) == Len(acts)
longest_run(acts) == MaxField(acts, "distance")        \* in 1/DistScale km

\* avg_speed_kmpm left in km per hour: the inversion (1/avg_speed_kph)*60 dropped
avg_speed_kmpm_NotInverted(acts) ==
    IF total_duration(acts) > 0 /\ total_distance(acts) > 0
    THEN <<60 * total_distance(acts), DistScale * total_duration(acts)>>
    ELSE <<0, 1>>

\* avg_speed_kmpm as a fraction <<n, d>> of minutes per km.  avg_speed_kph is
\* distance/(duration/60) when duration > 0 and that quotient is not 0, else 0;
\* avg_speed_kmpm is (1/avg_speed_kph)*60 when avg_speed_kph > 0, else 0.
avg_speed_kmpm(acts) ==
    IF total_duration(acts) > 0 /\ total_distance(acts) > 0
    THEN <<DistScale * total_duration(acts), total_distance(acts)>>
    ELSE <<0, 1>>

\* min(100, round(total_distance * 1))
distance_points(acts) == Min(100, RoundHalfEven(total_distance(acts), DistScale))

\* pace_points without the max(0, ...) guard
pace_points_NoGuard(acts) ==
    LET p == avg_speed_kmpm(acts)
        n == 4 * (10 * p[2] - p[1])
    IN  IF n >= 0 THEN {Min(50, v) : v \in RoundFloat(n, p[2])}
        ELSE {-(RoundHalfEven(-n, p[2]))}

\* min(50, round(max(0, (10 - avg_speed_kmpm) / 0.5) * 2)): the possible values
pace_points(acts) ==
    LET p == avg_speed_kmpm(acts)
        n == Max(0, 4 * (10 * p[2] - p[1]))
    IN  {Min(50, v) : v \in RoundFloat(n, p[2])}

\* runs_points with the constants of the rebalanced formula
runs_points_Rebalanced(acts) == Min(30, num_runs(acts) * 10)

\* min(50, num_runs * 5)
runs_points(acts) == Min(50, num_runs(acts) * 5)

\* min(50, round(longest_run * 2))
longest_points(acts) == Min(50, RoundHalfEven(2 * longest_run(acts), DistScale))

\* min(50, round(total_elevation / 50))
elevation_points(acts) == Min(50, RoundHalfEven(total_elevation(acts), 50))

\* min(50, round(total_duration / 10))
duration_points(acts) == Min(50, RoundHalfEven(total_duration(acts), 10))

\* if num_runs >= 3: score += 20
bonus_points(acts) == IF num_runs(acts) >= 3 THEN 20 ELSE 0

RECURSIVE SumSeq(_)
SumSeq(s) == IF s = <<>> THEN 0 ELSE Head(s) + SumSeq(Tail(s))

\* The outcomes of calculate_points(user_activities): a KeyError, or the
\* seven amounts added to score, in the order of the code, and their sum.
calculate_points(user_activities) ==
    IF RaisesKeyError(user_activities)
    THEN {[raised |-> "KeyError", added |-> <<>>, score |-> 0]}
    ELSE {[raised |-> "", added |-> a, score |-> SumSeq(a)] :
            a \in { <<distance_points(user_activities),
                      pp,
                      runs_points(user_activities),
                      longest_points(user_activities),
                      elevation_points(user_activities),
                      duration_points(user_activities),
                      bonus_points(user_activities)>> :
                    pp \in pace_points(user_activities) } }

----------------------------------------------------------------------------
(* SpecScore: calculate_points on a bounded set of buckets *)

Act(d, t, e) == [distance |-> d, duration |-> t, elevation |-> e]

\* activity records (distance in 1/DistScale km, minutes, metres)
ScoreSamples ==
    { Act(20 * DistScale, 100, 300),   \* the 20 km example
      Act(10 * DistScale, 60, 100),    \* first record of the two-record example
      Act(5 * DistScale, 25, 0),       \* second record of the two-record example
      Act(5 * DistScale, 0, 0),        \* zero duration
      Act(0, 30, 0),                   \* zero distance
      Act(50 * DistScale, 170, 1000),  \* long, fast, steep
      Act(8 * DistScale, 39, 25),      \* pace 4.875: 4*(10-pace) on a half
      Act(24 * DistScale, 117, 75),    \* the same pace from other totals
      Act(2 * DistScale, 16, 0),       \* pace 8.0
      Act(1 * DistScale, 10, 0),       \* pace 10.0
      Act(1 * DistScale, 100, 0),      \* pace 100
      Act(5, 15, 0) }                  \* 2.5 km: round(2.5) = 2

RECURSIVE SeqsUpTo(_, _)
SeqsUpTo(S, n) ==
    IF n = 0 THEN {<<>>}
    ELSE LET shorter == SeqsUpTo(S, n - 1)
         IN  shorter \cup {Append(s, x) : s \in shorter, x \in S}

NoOutcome == [raised |-> "", added |-> <<>>, score |-> 0]

InitScore ==
    /\ bucket \in SeqsUpTo(ScoreSamples, MaxBucket) \ {<<>>}
    /\ outcome = NoOutcome
    /\ scored = FALSE
    /\ db = TRUE
    /\ activities = <<>>
    /\ leagues = <<>>
    /\ users = <<>>
    /\ resp = <<>>
    /\ savesOk = TRUE

\* points = calculate_points(acts)
ScoreBucket ==
    /\ ~scored
    /\ outcome' \in calculate_points(bucket)
    /\ scored' = TRUE
    /\ UNCHANGED <<bucket, storeVars>>

NextScore == ScoreBucket

SpecScore == InitScore /\ [][NextScore]_vars

----------------------------------------------------------------------------
(* The document store and the requests of Spec *)

Leagues == {"L1", "L2"}

\* the users collection: u1 has a nickname, u2's document has no nickname
\* field, u3 has no document
UserDocs ==
    ("u1" :> [userID |-> "u1", nickname |-> "ana"]) @@
    ("u2" :> [userID |-> "u2", stravaID |-> "77"])

\* activity_id = str(payload["id"])
Str(i) == CASE i = 1 -> "1" [] i = 2 -> "2"

\* document_id = f"{payload['userID']}_{activity_id}", kept as the pair
document_id(payload) == <<payload.userID, Str(payload.id)>>

\* the activities a client saves (distance in 1/DistScale km, minutes,
\* metres, date as a day number)
ActivityCatalogue ==
    { [userID |-> "u1", id |-> 1, type |-> "Run", distance |-> 20 * DistScale,
       duration |-> 100, elevation |-> 300, date |-> 9],
      [userID |-> "u1", id |-> 2, type |-> "Walk", distance |-> 5 * DistScale,
       duration |-> 25, elevation |-> 0, date |-> 1] }

\* the values of payload["includedInLeagues"]
LeagueLists == {<<>>, <<"L1">>, <<"L2">>, <<"L1", "L2">>}

\* request bodies of POST /activities/save: complete ones, and ones that
\* lack includedInLeagues
Payloads ==
    {a @@ [includedInLeagues |-> ll] : a \in ActivityCatalogue, ll \in LeagueLists}
    \cup ActivityCatalogue

\* what another writer of the store filed under league L1 before the service
\* started: nothing, or one document of u2 or of u3, complete or lacking a field
LegacyDoc(u) ==
    [userID |-> u, activityID |-> "0", type |-> "Walk",
     distance |-> 10 * DistScale, duration |-> 60, elevation |-> 100, date |-> 1]
Without(doc, f) == [k \in DOMAIN doc \ {f} |-> doc[k]]
LegacyCollections ==
    {<<>>} \cup
    {<<u, "0">> :> LegacyDoc(u) : u \in {"u2", "u3"}} \cup
    {<<"u3", "0">> :> Without(LegacyDoc("u3"), f) :
        f \in {"userID", "distance", "duration", "elevation"}}

\* Firestore streams a collection in the order of the document names
DocNameOrder == << <<"u1", "1">>, <<"u1", "2">>, <<"u2", "0">>, <<"u3", "0">> >>

Periods == {"general", "weekly", "monthly"}

NoRequest == [request |-> [endpoint |-> "none"], body |-> <<>>]

Init ==
    /\ db \in BOOLEAN
    /\ activities = <<>>
    /\ \E legacy \in LegacyCollections :
         leagues = [L \in Leagues |-> IF L = "L1" THEN legacy ELSE <<>>]
    /\ users = UserDocs
    /\ resp = NoRequest
    /\ savesOk = TRUE
    /\ bucket = <<>>
    /\ outcome = NoOutcome
    /\ scored = FALSE

----------------------------------------------------------------------------
(* save_activity, src/app.py 231-272 *)

required_fields ==
    <<"userID", "id", "type", "distance", "duration", "elevation", "date",
      "includedInLeagues">>

\* the first required field the payload lacks, 0 if none
RECURSIVE FirstMissing(_, _)
FirstMissing(payload, i) ==
    IF i > Len(required_fields) THEN 0
    ELSE IF required_fields[i] \notin DOMAIN payload THEN i
    ELSE FirstMissing(payload, i + 1)

\* the document written under each league (no includedInLeagues)
LeagueDoc(payload) ==
    [userID |-> payload.userID, activityID |-> Str(payload.id),
     type |-> payload.type, distance |-> payload.distance,
     duration |-> payload.duration, elevation |-> payload.elevation,
     date |-> payload.date]

\* the document written to the top-level activities collection
ActivityDoc(payload) ==
    LeagueDoc(payload) @@ [includedInLeagues |-> payload.includedInLeagues]

\* document(id).set(doc): creates or replaces
SetDoc(coll, id, doc) == (id :> doc) @@ coll

\* for league_id in payload["includedInLeagues"]: ...document(document_id).set
\* as far as n writes
RECURSIVE WriteLeagues(_, _, _, _)
WriteLeagues(ls, ll, payload, n) ==
    IF ll = <<>> \/ n = 0 THEN ls
    ELSE WriteLeagues(
           [ls EXCEPT ![Head(ll)] = SetDoc(@, document_id(payload), LeagueDoc(payload))],
           Tail(ll), payload, n - 1)

\* the store writes a save of payload makes
WritesOf(payload) ==
    IF "includedInLeagues" \in DOMAIN payload
    THEN 1 + Len(payload.includedInLeagues) ELSE 0

\* POST /activities/save; fault is the store write that raises (0: none;
\* 1: the activities document; k + 1: the k-th league document), the writes
\* before it having been made
save_activity(payload, fault) ==
    IF ~db THEN
        /\ resp' = [request |-> [endpoint |-> "save"],
                    body |-> [error |-> "Firestore no esta disponible"]]
        /\ savesOk' = FALSE
        /\ UNCHANGED <<db, activities, leagues, users, scoreVars>>
    ELSE IF FirstMissing(payload, 1) # 0 THEN
        /\ resp' = [request |-> [endpoint |-> "save"],
                    body |-> [error |-> "Falta el campo obligatorio",
                              field |-> required_fields[FirstMissing(payload, 1)]]]
        /\ savesOk' = FALSE
        /\ UNCHANGED <<db, activities, leagues, users, scoreVars>>
    ELSE IF fault # 0 THEN
        /\ activities' = IF fault = 1 THEN activities
                         ELSE SetDoc(activities, document_id(payload), ActivityDoc(payload))
        /\ leagues' = IF fault = 1 THEN leagues
                      ELSE WriteLeagues(leagues, payload.includedInLeagues, payload,
                                        fault - 2)
        /\ resp' = [request |-> [endpoint |-> "save"],
                    body |-> [error |-> "Error al guardar la actividad",
                              details |-> "StoreError"]]
        /\ savesOk' = FALSE
        /\ UNCHANGED <<db, users, scoreVars>>
    ELSE
        /\ activities' = SetDoc(activities, document_id(payload), ActivityDoc(payload))
        /\ leagues' = WriteLeagues(leagues, payload.includedInLeagues, payload,
                                   Len(payload.includedInLeagues))
        /\ resp' = [request |-> [endpoint |-> "save"],
                    body |-> [success |-> TRUE,
                              message |-> "Actividad guardada correctamente"]]
        /\ UNCHANGED <<db, users, savesOk, scoreVars>>

SaveActivity ==
    \E payload \in Payloads :
        \E fault \in 0..(IF db THEN WritesOf(payload) ELSE 0) :
            save_activity(payload, fault)

----------------------------------------------------------------------------
(* compute_league_ranking, src/app.py 175-229 *)

\* docs = ...collection("activities").stream();
\* league_activities = [doc.to_dict() for doc in docs]
Stream(league_id) ==
    LET ids == SelectSeq(DocNameOrder, LAMBDA id : id \in DOMAIN leagues[league_id])
    IN  [i \in 1..Len(ids) |-> leagues[league_id][ids[i]]]

\* AppendTo that keeps only the latest record of a user
AppendTo_Overwrite(user_data, a) ==
    IF \E i \in 1..Len(user_data) : user_data[i][1] = a.userID
    THEN [i \in 1..Len(user_data) |->
            IF user_data[i][1] = a.userID
            THEN <<user_data[i][1], <<a>>>>
            ELSE user_data[i]]
    ELSE Append(user_data, <<a.userID, <<a>>>>)

\* user_data[a["userID"]].append(a), on a dict that keeps insertion order:
\* a sequence of <<userID, records>>
AppendTo(user_data, a) ==
    IF \E i \in 1..Len(user_data) : user_data[i][1] = a.userID
    THEN [i \in 1..Len(user_data) |->
            IF user_data[i][1] = a.userID
            THEN <<user_data[i][1], Append(user_data[i][2], a)>>
            ELSE user_data[i]]
    ELSE Append(user_data, <<a.userID, <<a>>>>)

\* for a in league_activities: user_data[a["userID"]].append(a)
RECURSIVE GroupByUser(_, _)
GroupByUser(acts, user_data) ==
    IF acts = <<>> THEN user_data
    ELSE GroupByUser(Tail(acts), AppendTo(user_data, Head(acts)))

\* NicknameOf with .get("nickname") and no default
NicknameOf_NoDefault(user_id) ==
    IF user_id \in DOMAIN users
    THEN IF "nickname" \in DOMAIN users[user_id]
         THEN users[user_id].nickname
         ELSE "None"
    ELSE "Usuario"

\* nickname = "Usuario"; if user_doc.exists: nickname =
\* user_doc.to_dict().get("nickname", "Usuario")
NicknameOf(user_id) ==
    IF user_id \in DOMAIN users
    THEN IF "nickname" \in DOMAIN users[user_id]
         THEN users[user_id].nickname
         ELSE "Usuario"
    ELSE "Usuario"

\* InsertByPoints of a sort without reverse=True
InsertByPoints_Ascending(sorted, x) ==
    LET before == SelectSeq(sorted, LAMBDA y : y.points <= x.points)
        after == SelectSeq(sorted, LAMBDA y : y.points > x.points)
    IN  before \o <<x>> \o after

\* ranking.sort(key=lambda x: x["points"], reverse=True): stable, so x goes
\* behind every entry with at least its points
InsertByPoints(sorted, x) ==
    LET before == SelectSeq(sorted, LAMBDA y : y.points >= x.points)
        after == SelectSeq(sorted, LAMBDA y : y.points < x.points)
    IN  before \o <<x>> \o after

RECURSIVE SortByPoints(_, _)
SortByPoints(ranking, sorted) ==
    IF ranking = <<>> THEN sorted
    ELSE SortByPoints(Tail(ranking), InsertByPoints(sorted, Head(ranking)))

\* on_exception that hands back the entries built so far
on_exception_Partial(e, ranking) ==
    [error |-> "Error accediendo a Firestore", details |-> e, ranking |-> ranking]

\* except Exception as e: return {"error": ..., "details": str(e)}; the
\* entries built so far (ranking) are dropped
on_exception(e, ranking) ==
    [error |-> "Error accediendo a Firestore", details |-> e]

\* the loop over user_data.items() from entry i on.  fault = i + 1 makes the
\* i-th users read raise.  The set of outcomes: the finished list, or the
\* exception with the list as it stood.
RECURSIVE BuildRanking(_, _, _, _)
BuildRanking(user_data, i, fault, ranking) ==
    IF i > Len(user_data) THEN {[raised |-> "", ranking |-> ranking]}
    ELSE UNION {
           IF o.raised # "" THEN {[raised |-> o.raised, ranking |-> ranking]}
           ELSE IF fault = i + 1 THEN {[raised |-> "StoreError", ranking |-> ranking]}
           ELSE BuildRanking(user_data, i + 1, fault,
                    Append(ranking, [userID |-> user_data[i][1],
                                     points |-> o.score,
                                     nickname |-> NicknameOf(user_data[i][1])])) :
           o \in calculate_points(user_data[i][2]) }

\* the response bodies compute_league_ranking(league_id) can return when the
\* store read number fault raises (0: none; 1: the stream; i + 1: the users
\* read of the i-th user)
RankingBodies(league_id, fault) ==
    IF fault = 1 THEN {on_exception("StoreError", <<>>)}
    ELSE LET league_activities == Stream(league_id)
         IN  IF \E i \in 1..Len(league_activities) :
                    "userID" \notin DOMAIN league_activities[i]
             THEN {on_exception("KeyError", <<>>)}
             ELSE { IF b.raised # "" THEN on_exception(b.raised, b.ranking)
                    ELSE [ranking |-> SortByPoints(b.ranking, <<>>)] :
                    b \in BuildRanking(GroupByUser(league_activities, <<>>), 1,
                                       fault, <<>>) }

\* the store reads a ranking of league_id makes when nothing raises
ReadsOf(league_id) ==
    1 + Cardinality({d.userID : d \in {leagues[league_id][id] : id \in
            {x \in DOMAIN leagues[league_id] : "userID" \in DOMAIN leagues[league_id][x]}}})

\* GET /league/{league_id}/ranking?period=...: period is no parameter of the
\* handler, so the query string is dropped
compute_league_ranking(league_id, period, fault) ==
    /\ resp' \in
         { [request |-> [endpoint |-> "ranking", league_id |-> league_id,
                         period |-> period, fault |-> fault],
            body |-> b] :
           b \in IF ~db THEN {[error |-> "Firestore no esta disponible"]}
                 ELSE RankingBodies(league_id, fault) }
    /\ UNCHANGED <<db, activities, leagues, users, savesOk, scoreVars>>

ComputeLeagueRanking ==
    \E league_id \in Leagues, period \in Periods :
        \E fault \in 0..(IF db THEN ReadsOf(league_id) ELSE 0) :
            compute_league_ranking(league_id, period, fault)

Next == SaveActivity \/ ComputeLeagueRanking

Spec == Init /\ [][Next]_vars

----------------------------------------------------------------------------
(* Claims about calculate_points, checked under SpecScore *)

Scored == scored /\ outcome.raised = ""

\* the totals of the bucket in km*DistScale, minutes, metres
BucketDistance == SumField(bucket, "distance")
BucketDuration == SumField(bucket, "duration")
BucketElevation == SumField(bucket, "elevation")
BucketLongest == MaxField(bucket, "distance")

\* the pace sub-score of the formula the specification calls canonical
CanonicalPace(D, T) ==
    IF T = 0 \/ D = 0 THEN 0
    ELSE IF DistScale * T * 10 <= 50 * D THEN 60
    ELSE IF DistScale * T * 10 >= 75 * D THEN 0
    ELSE RoundHalfEven(180 * D - 24 * DistScale * T, D)

CanonicalLongest(L) ==
    IF L >= 15 * DistScale THEN 30
    ELSE IF L >= 10 * DistScale THEN 20
    ELSE IF L >= 5 * DistScale THEN 10
    ELSE 0

CanonicalScore(acts) ==
    Min(60, RoundHalfEven(SumField(acts, "distance"), DistScale))
    + CanonicalPace(SumField(acts, "distance"), SumField(acts, "duration"))
    + Min(30, SumField(acts, "elevation") \div 10)
    + Min(30, 10 * Len(acts))
    + CanonicalLongest(MaxField(acts, "distance"))
    + (IF Len(acts) >= 3 THEN 20 ELSE 0)

\* C1 as claimed: the score of every non-empty bucket is the sum of the six
\* sub-scores of the canonical formula (caps 60/60/30/30/30, bonus 20).
C1_Original == Scored => outcome.score = CanonicalScore(bucket)

\* the pace sub-score of the code: 4*(10 - pace) rounded and held in 0..50,
\* with pace = duration/distance, and pace = 0 when either total is 0; on a
\* half either neighbour, as the float falls
CodePace(D, T) ==
    LET defined == T > 0 /\ D > 0
        d == IF defined THEN D ELSE 1
        m == IF defined THEN Max(0, 4 * (10 * D - DistScale * T)) ELSE 40
    IN  { Min(50, w) : w \in {v \in 0..40 : 2 * (v * d - m) <= d /\ 2 * (m - v * d) <= d} }

\* C1 amended: the score of every non-empty bucket is the sum of the seven
\* amounts the code adds: min(100, round(distance)) + min(50, round(max(0,
\* (10 - pace)/0.5) * 2)) + min(50, 5*records) + min(50, round(2*longest)) +
\* min(50, round(elevation/50)) + min(50, round(duration/10)) + 20 if there
\* are 3 records or more; {20 km, 100 min, 300 m} scores 101 and
\* [{10, 60, 100}, {5, 25, 0}] scores 72.
C1_Amended ==
    /\ Scored =>
         \E pp \in CodePace(BucketDistance, BucketDuration) :
           outcome.score =
               Min(100, RoundHalfEven(BucketDistance, DistScale))
               + pp
               + Min(50, 5 * Len(bucket))
               + Min(50, RoundHalfEven(2 * BucketLongest, DistScale))
               + Min(50, RoundHalfEven(BucketElevation, 50))
               + Min(50, RoundHalfEven(BucketDuration, 10))
               + (IF Len(bucket) >= 3 THEN 20 ELSE 0)
    /\ Scored /\ bucket = <<Act(20 * DistScale, 100, 300)>> => outcome.score = 101
    /\ Scored /\ bucket = <<Act(10 * DistScale, 60, 100), Act(5 * DistScale, 25, 0)>>
         => outcome.score = 72

\* the two-record example has been scored, and its duration total 85 rounded
\* to 8 tens of minutes
C1_Witness ==
    /\ Scored
    /\ bucket = <<Act(10 * DistScale, 60, 100), Act(5 * DistScale, 25, 0)>>
    /\ outcome.added = <<15, 17, 10, 20, 2, 8, 0>>

\* C2 as claimed: points is never negative and never exceeds cap_d + 60 +
\* cap_e + cap_r + 30 + 20, which is 230 for the canonical caps and 310 for
\* the caps of the code (cap_d = 100, cap_e = 50, cap_r = 50).
C2_Original == Scored => outcome.score >= 0 /\ outcome.score <= 100 + 60 + 50 + 50 + 30 + 20

CodeCaps == <<100, 50, 50, 50, 50, 50, 20>>

\* C2 amended: points is an integer that is never negative and never exceeds
\* 100 + 50 + 50 + 50 + 50 + 50 + 20 = 370, the sum of the caps of the seven
\* amounts the code adds, each amount lying between 0 and its cap.
C2_Amended ==
    Scored =>
        /\ outcome.score \in 0..SumSeq(CodeCaps)
        /\ SumSeq(CodeCaps) = 370
        /\ Len(outcome.added) = Len(CodeCaps)
        /\ \A i \in 1..Len(CodeCaps) : outcome.added[i] \in 0..CodeCaps[i]
        /\ outcome.score = SumSeq(outcome.added)

\* a bucket scored above the claimed 310
C2_Witness == Scored /\ outcome.score > 310 /\ Len(bucket) = MaxBucket

\* C5 as claimed: a bucket whose total duration or total distance is 0 is
\* scored without error and its pace sub-score is 0.
C5_Claim ==
    scored /\ (BucketDuration = 0 \/ BucketDistance = 0)
        => outcome.raised = "" /\ outcome.added[2] = 0

\* the order of two paces T1/D1 and T2/D2 (distances > 0)
PaceLess(D1, T1, D2, T2) == T1 * D2 < T2 * D1
PaceLeq(D1, T1, D2, T2) == T1 * D2 <= T2 * D1

\* the buckets a scored bucket is compared with
RefBuckets == {b \in SeqsUpTo(ScoreSamples, 1) \ {<<>>} : SumField(b, "distance") > 0}

\* C9 as claimed: pace points never increase with pace (p1 <= p2 gives points
\* of the first >= points of the second), are exactly 60 for every pace <= 5.0
\* and exactly 0 for every pace >= 7.5.
C9_Original ==
    Scored /\ BucketDistance > 0 =>
        /\ \A b \in RefBuckets : \A pp \in pace_points(b) :
             PaceLeq(BucketDistance, BucketDuration,
                     SumField(b, "distance"), SumField(b, "duration"))
                => outcome.added[2] >= pp
        /\ DistScale * BucketDuration * 10 <= 50 * BucketDistance => outcome.added[2] = 60
        /\ DistScale * BucketDuration * 10 >= 75 * BucketDistance => outcome.added[2] = 0

\* C9 amended: pace points never increase with pace: a bucket of strictly
\* lower pace has at least the points of one of higher pace (two buckets of
\* the same pace differ by at most 1, only where the float rounding of
\* 4*(10 - pace) falls on a half); they are exactly 0 for every pace >= 10
\* min/km, 20 at pace 5.0, 10 at pace 7.5, and never above 40.
C9_Amended ==
    Scored /\ BucketDistance > 0 =>
        /\ \A b \in RefBuckets : \A pp \in pace_points(b) :
             /\ PaceLess(BucketDistance, BucketDuration,
                         SumField(b, "distance"), SumField(b, "duration"))
                  => outcome.added[2] >= pp
             /\ BucketDuration * SumField(b, "distance")
                  = SumField(b, "duration") * BucketDistance
                  => outcome.added[2] - pp \in {-1, 0, 1}
        /\ DistScale * BucketDuration >= 10 * BucketDistance => outcome.added[2] = 0
        /\ DistScale * BucketDuration = 5 * BucketDistance => outcome.added[2] = 20
        /\ DistScale * BucketDuration * 10 = 75 * BucketDistance => outcome.added[2] = 10
        /\ outcome.added[2] \in 0..40

\* a bucket of pace 6.0 min/km, between the anchors, has its 16 pace points
C9_Witness ==
    /\ Scored
    /\ BucketDistance > 0
    /\ DistScale * BucketDuration = 6 * BucketDistance
    /\ Len(bucket) = 2
    /\ outcome.added[2] = 16

----------------------------------------------------------------------------
(* Claims about the handlers, checked under Spec *)

IsRanking == resp.request.endpoint = "ranking"
HasRanking == IsRanking /\ "ranking" \in DOMAIN resp.body

\* the documents of a league, and whether one lacks a field the ranking reads
DocsOf(L) == {leagues[L][id] : id \in DOMAIN leagues[L]}
Malformed(L) ==
    \E d \in DocsOf(L) :
        \E f \in {"userID", "distance", "duration", "elevation"} : f \notin DOMAIN d

\* the records of user u among docs, in their order
RecordsOf(docs, u) == SelectSeq(docs, LAMBDA d : d.userID = u)

\* ranking is a leaderboard over docs: one entry for each user who owns a
\* record and for nobody else, each scored over all the records of its user
LeaderboardOver(ranking, docs) ==
    LET owners == {docs[i].userID : i \in 1..Len(docs)}
    IN  /\ {ranking[i].userID : i \in 1..Len(ranking)} = owners
        /\ Len(ranking) = Cardinality(owners)
        /\ \A i \in 1..Len(ranking) :
             ranking[i].points \in
                 {o.score : o \in calculate_points(RecordsOf(docs, ranking[i].userID))}

\* C3: the ranking returned is ordered by points descending: of two adjacent
\* entries the earlier has at least the points of the later.
C3_SortedByPoints ==
    HasRanking =>
        \A i \in 1..(Len(resp.body.ranking) - 1) :
            resp.body.ranking[i].points >= resp.body.ranking[i + 1].points

\* u3, read after u1 from the store, is ranked before u1 on its points
C3_Witness ==
    /\ HasRanking
    /\ Len(resp.body.ranking) = 2
    /\ resp.body.ranking[1].userID = "u3"
    /\ resp.body.ranking[2].userID = "u1"
    /\ resp.body.ranking[1].points > resp.body.ranking[2].points

\* now_utc is day 10: records dated before day 3 are older than 7 days
WeeklyWindow(docs) == SelectSeq(docs, LAMBDA d : d.date >= 10 - 7)

\* C4 as claimed: with period "weekly" the records older than now - 7 days
\* count for nothing and all others count; with any other period every
\* record of the league counts.
C4_Claim ==
    HasRanking =>
        LeaderboardOver(resp.body.ranking,
                        IF resp.request.period = "weekly"
                        THEN WeeklyWindow(Stream(resp.request.league_id))
                        ELSE Stream(resp.request.league_id))

\* C6: when a record of the league lacks userID, distance, duration or
\* elevation, or a store read of the computation fails, the response is an
\* error and carries no ranking at all.
C6_NoPartialLeaderboard ==
    IsRanking =>
        /\ ("ranking" \in DOMAIN resp.body) # ("error" \in DOMAIN resp.body)
        /\ (~db \/ resp.request.fault # 0 \/ Malformed(resp.request.league_id))
             => /\ "error" \in DOMAIN resp.body
                /\ "ranking" \notin DOMAIN resp.body

\* the users read of the second user failed after the first entry was built
C6_Witness ==
    /\ IsRanking
    /\ resp.request.fault = 3
    /\ Cardinality(DOMAIN leagues[resp.request.league_id]) = 3
    /\ resp.body = [error |-> "Error accediendo a Firestore", details |-> "StoreError"]

\* C7: a successful ranking has exactly one entry for each userID that owns a
\* record of the league and none for anyone else, each scored over all the
\* records of that user in the order read; a league without activities has an
\* empty leaderboard.
C7_OneEntryPerUser ==
    HasRanking =>
        /\ LeaderboardOver(resp.body.ranking, Stream(resp.request.league_id))
        /\ DOMAIN leagues[resp.request.league_id] = {} => resp.body.ranking = <<>>

\* u1 is ranked on both of its records, beside another user
C7_Witness ==
    /\ HasRanking
    /\ Len(resp.body.ranking) = 2
    /\ Len(RecordsOf(Stream(resp.request.league_id), "u1")) = 2
    /\ resp.body.ranking[1].userID = "u1"
    /\ resp.body.ranking[1].points = 113

\* C8: an entry's nickname is the nickname of the user's document when the
\* document exists and has one, and "Usuario" otherwise; a missing document
\* or nickname neither fails the request nor drops the entry.
C8_Nickname ==
    /\ HasRanking =>
         \A i \in 1..Len(resp.body.ranking) :
            LET u == resp.body.ranking[i].userID
            IN  resp.body.ranking[i].nickname =
                    IF u \in DOMAIN users /\ "nickname" \in DOMAIN users[u]
                    THEN users[u].nickname
                    ELSE "Usuario"
    /\ IsRanking /\ db /\ resp.request.fault = 0 /\ ~Malformed(resp.request.league_id)
         => /\ "ranking" \in DOMAIN resp.body
            /\ \A d \in DocsOf(resp.request.league_id) :
                 \E i \in 1..Len(resp.body.ranking) :
                    resp.body.ranking[i].userID = d.userID

\* u2, whose document has no nickname, is ranked as "Usuario" beside "ana"
C8_Witness ==
    /\ HasRanking
    /\ \E i, j \in 1..Len(resp.body.ranking) :
         /\ resp.body.ranking[i].userID = "u2"
         /\ resp.body.ranking[i].nickname = "Usuario"
         /\ resp.body.ranking[j].userID = "u1"
         /\ resp.body.ranking[j].nickname = "ana"

ListedIn(L, ll) == \E i \in 1..Len(ll) : ll[i] = L

\* C10 as claimed: after any sequence of successful saves, league L holds a
\* record under userID_activityID if and only if the top-level activities
\* document of that id lists L in includedInLeagues.
C10_Claim ==
    savesOk =>
    \A id \in DOMAIN activities : \A L \in Leagues :
        (id \in DOMAIN leagues[L]) <=> ListedIn(L, activities[id].includedInLeagues)

====
